---- MODULE Spec2Model ----
(***************************************************************************)
(* Model of wikidata.py: class Guru.  A call of Guru.ask is a process that *)
(* walks through ask, get_age / get_population and run_query; the          *)
(* SPARQLWrapper object self.sparql is shared by all calls on one Guru.    *)
(* Text is modelled as a sequence of one-character strings, so that        *)
(* lower(), replace(), strip(), title(), str() and parse() are computed    *)
(* character by character.                                                  *)
(***************************************************************************)
EXTENDS Integers, Sequences, FiniteSets, TLC

\* ------------------------------------------------------------------ bounds
\* Largest number of pieces a question text is put together from.
MaxPieces == 4
\* Largest number of bindings the knowledge service returns.
MaxBindings == 2
\* Calendar years covered: 2000 .. 2000 + YearSpan.
YearSpan == 2

\* ------------------------------------------------------------ str methods
lowercase == <<"a","b","c","d","e","f","g","h","i","j","k","l","m","n","o","p","q","r","s","t","u","v","w","x","y","z">>
uppercase == <<"A","B","C","D","E","F","G","H","I","J","K","L","M","N","O","P","Q","R","S","T","U","V","W","X","Y","Z">>
whitespace == {" ", "\t", "\n"}
digits == <<"0","1","2","3","4","5","6","7","8","9">>

UpperSet == {uppercase[k] : k \in 1..26}
LowerSet == {lowercase[k] : k \in 1..26}
ToLower == [ch \in UpperSet |-> lowercase[CHOOSE k \in 1..26 : uppercase[k] = ch]]
ToUpper == [ch \in LowerSet |-> uppercase[CHOOSE k \in 1..26 : lowercase[k] = ch]]
IsUpper(ch) == ch \in UpperSet
IsLower(ch) == ch \in LowerSet
IsCased(ch) == IsUpper(ch) \/ IsLower(ch)
LowerChar(ch) == IF IsUpper(ch) THEN ToLower[ch] ELSE ch
UpperChar(ch) == IF IsLower(ch) THEN ToUpper[ch] ELSE ch

\* str.lower()
Lower(s) == [i \in 1..Len(s) |-> LowerChar(s[i])]

\* s[i:i+len(sub)] == sub
MatchAt(s, sub, i) == i + Len(sub) - 1 <= Len(s) /\ SubSeq(s, i, i + Len(sub) - 1) = sub

\* sub in s
Contains(sub, s) == \E i \in 1..(Len(s) + 1) : MatchAt(s, sub, i)

\* str.replace(old, ''): one pass from the left over the occurrences of old
\* that do not overlap; what the removal leaves is not scanned again.
RECURSIVE ReplaceFrom(_, _, _)
ReplaceFrom(s, old, i) ==
  IF i > Len(s) THEN <<>>
  ELSE IF MatchAt(s, old, i) THEN ReplaceFrom(s, old, i + Len(old))
  ELSE <<s[i]>> \o ReplaceFrom(s, old, i + 1)

\* A replace that removes the first occurrence only.
RECURSIVE ReplaceFirstFrom(_, _, _)
ReplaceFirstFrom(s, old, i) ==
  IF i > Len(s) THEN <<>>
  ELSE IF MatchAt(s, old, i) THEN SubSeq(s, i + Len(old), Len(s))
  ELSE <<s[i]>> \o ReplaceFirstFrom(s, old, i + 1)
ReplaceFirst(s, old) == ReplaceFirstFrom(s, old, 1)

Replace(s, old) == ReplaceFrom(s, old, 1)

\* str.strip()
RECURSIVE LStrip(_)
LStrip(s) == IF s # <<>> /\ Head(s) \in whitespace THEN LStrip(Tail(s)) ELSE s
RECURSIVE RStrip(_)
RStrip(s) == IF s # <<>> /\ s[Len(s)] \in whitespace THEN RStrip(SubSeq(s, 1, Len(s) - 1)) ELSE s
Strip(s) == RStrip(LStrip(s))

\* str.title(): a cased character is upper-cased when the character before
\* it is not cased, and lower-cased when it is.
Title(s) ==
  [i \in 1..Len(s) |->
     IF i > 1 /\ IsCased(s[i - 1]) THEN LowerChar(s[i]) ELSE UpperChar(s[i])]

\* str(n) of an int
RECURSIVE NatStr(_)
NatStr(n) == IF n < 10 THEN <<digits[n + 1]>> ELSE NatStr(n \div 10) \o <<digits[(n % 10) + 1]>>
Str(n) == IF n < 0 THEN <<"-">> \o NatStr(-n) ELSE NatStr(n)

\* ------------------------------------------------------------ values
None == [none |-> TRUE]
Raise(type, msg) == [raise |-> type, msg |-> msg]
Return(value) == [return |-> value]
Call(name, arg) == [call |-> name, arg |-> arg]
IsRaise(r) == "raise" \in DOMAIN r
IsReturn(r) == "return" \in DOMAIN r
IsCall(r) == "call" \in DOMAIN r

\* ------------------------------------------------------------ Guru.ask
age_question == <<"h","o","w"," ","o","l","d"," ","i","s"," ">>
population_question == <<"w","h","a","t"," ","i","s"," ","t","h","e"," ","p","o","p","u","l","a","t","i","o","n"," ","o","f"," ">>
MsgMissingPerson == <<"M","i","s","s","i","n","g"," ","p","e","r","s","o","n","'","s"," ","n","a","m","e">>
MsgMissingCity == <<"M","i","s","s","i","n","g"," ","c","i","t","y"," ","n","a","m","e">>
MsgInvalid == <<"I","n","v","a","l","i","d"," ","q","u","e","s","t","i","o","n",":"," ">>

\* ask with the population branch tried first
ask_population_first(question) ==
  LET question_lowercase == Lower(question) IN
  IF Contains(population_question, question_lowercase) THEN
    LET city == Replace(question_lowercase, population_question) IN
    IF Len(city) = 0 \/ Len(Strip(city)) = 0
    THEN Raise("ValueError", MsgMissingCity)
    ELSE Call("get_population", Title(Strip(city)))
  ELSE IF Contains(age_question, question_lowercase) THEN
    LET person == Replace(question_lowercase, age_question) IN
    IF Len(person) = 0 \/ Len(Strip(person)) = 0
    THEN Raise("ValueError", MsgMissingPerson)
    ELSE Call("get_age", Title(Strip(person)))
  ELSE Raise("ValueError", MsgInvalid \o question)

\* ask without the strip() in the missing-subject test
ask_no_strip_test(question) ==
  LET question_lowercase == Lower(question) IN
  IF Contains(age_question, question_lowercase) THEN
    LET person == Replace(question_lowercase, age_question) IN
    IF Len(person) = 0
    THEN Raise("ValueError", MsgMissingPerson)
    ELSE Call("get_age", Title(Strip(person)))
  ELSE IF Contains(population_question, question_lowercase) THEN
    LET city == Replace(question_lowercase, population_question) IN
    IF Len(city) = 0
    THEN Raise("ValueError", MsgMissingCity)
    ELSE Call("get_population", Title(Strip(city)))
  ELSE Raise("ValueError", MsgInvalid \o question)

\* The body of ask up to the call of the resolver: the exception it raises,
\* or the resolver it calls and the argument it passes.
ask(question) ==
  LET question_lowercase == Lower(question) IN
  IF Contains(age_question, question_lowercase) THEN
    LET person == Replace(question_lowercase, age_question) IN
    IF Len(person) = 0 \/ Len(Strip(person)) = 0
    THEN Raise("ValueError", MsgMissingPerson)
    ELSE Call("get_age", Title(Strip(person)))
  ELSE IF Contains(population_question, question_lowercase) THEN
    LET city == Replace(question_lowercase, population_question) IN
    IF Len(city) = 0 \/ Len(Strip(city)) = 0
    THEN Raise("ValueError", MsgMissingCity)
    ELSE Call("get_population", Title(Strip(city)))
  ELSE Raise("ValueError", MsgInvalid \o question)

\* ------------------------------------------------------------ queries
\* person_query / city_query: the subject is put into the template as it is.
person_query(person) == [template |-> "person_query", label |-> person]
city_query(city) == [template |-> "city_query", label |-> city]
\* The query string a SPARQLWrapper holds before setQuery.
DefaultQuery == [template |-> "default", label |-> <<>>]

\* ------------------------------------------------------------ calendar
\* datetime.date as [year, month, day]
Date(y, m, d) == [year |-> y, month |-> m, day |-> d]
IsLeap(y) == (y % 4 = 0 /\ y % 100 # 0) \/ y % 400 = 0
\* calendar.monthrange(year, month)[1]
DaysIn(y, m) ==
  IF m = 2 THEN (IF IsLeap(y) THEN 29 ELSE 28)
  ELSE IF m \in {4, 6, 9, 11} THEN 30 ELSE 31
\* date.__lt__
DateLT(a, b) ==
  \/ a.year < b.year
  \/ a.year = b.year /\ a.month < b.month
  \/ a.year = b.year /\ a.month = b.month /\ a.day < b.day
Min(a, b) == IF a < b THEN a ELSE b

\* relativedelta._set_months: whole years carry out of the months, both
\* with the sign of the months.
set_months(months) ==
  IF months > 11 THEN [years |-> months \div 12, months |-> months % 12]
  ELSE IF months < -11 THEN [years |-> -((-months) \div 12), months |-> -((-months) % 12)]
  ELSE [years |-> 0, months |-> months]

\* relativedelta.__radd__ on a date: the day is clipped to the month's end.
AddDelta(dt, rd) ==
  LET m0 == dt.month + rd.months
      y0 == dt.year + rd.years
      year == IF m0 > 12 THEN y0 + 1 ELSE IF m0 < 1 THEN y0 - 1 ELSE y0
      month == IF m0 > 12 THEN m0 - 12 ELSE IF m0 < 1 THEN m0 + 12 ELSE m0
  IN Date(year, month, Min(DaysIn(year, month), dt.day))

\* relativedelta(dt1, dt2): the month difference, stepped towards zero
\* while dt2 + delta overshoots dt1.
RECURSIVE DeltaLoop(_, _, _)
DeltaLoop(dt1, dt2, months) ==
  LET rd == set_months(months)
      dtm == AddDelta(dt2, rd)
  IN IF DateLT(dt1, dt2) /\ DateLT(dtm, dt1) THEN DeltaLoop(dt1, dt2, months + 1)
     ELSE IF ~DateLT(dt1, dt2) /\ DateLT(dt1, dtm) THEN DeltaLoop(dt1, dt2, months - 1)
     ELSE rd

\* A year difference that ignores month and day.
YearsApart(dt1, dt2) == [years |-> dt1.year - dt2.year, months |-> 0]

relativedelta(dt1, dt2) ==
  DeltaLoop(dt1, dt2, (dt1.year - dt2.year) * 12 + (dt1.month - dt2.month))

\* ------------------------------------------------------------ date text
DigitVal(ch) == (CHOOSE k \in 1..10 : digits[k] = ch) - 1
IsDigit(ch) == \E k \in 1..10 : digits[k] = ch
RECURSIVE Num(_)
Num(s) == IF s = <<>> THEN 0 ELSE 10 * Num(SubSeq(s, 1, Len(s) - 1)) + DigitVal(s[Len(s)])
Pad2(n) == IF n < 10 THEN <<"0">> \o NatStr(n) ELSE NatStr(n)
MidnightZ == <<"T","0","0",":","0","0",":","0","0","Z">>
\* The xsd:dateTime text the knowledge service gives for a date.
IsoText(d) == NatStr(d.year) \o <<"-">> \o Pad2(d.month) \o <<"-">> \o Pad2(d.day) \o MidnightZ
IsIsoText(s) ==
  /\ Len(s) = 20
  /\ \A i \in {1, 2, 3, 4, 6, 7, 9, 10} : IsDigit(s[i])
  /\ s[5] = "-" /\ s[8] = "-"
  /\ SubSeq(s, 11, 20) = MidnightZ
MsgUnknownFormat == <<"U","n","k","n","o","w","n"," ","s","t","r","i","n","g"," ","f","o","r","m","a","t",":"," ">>
\* dateutil.parser.parse(text).date(): the date of a timestamp text, or
\* ParserError for a text that is no date.
parse_date(s) ==
  IF IsIsoText(s)
  THEN Date(Num(SubSeq(s, 1, 4)), Num(SubSeq(s, 6, 7)), Num(SubSeq(s, 9, 10)))
  ELSE Raise("ParserError", MsgUnknownFormat \o s)

\* ------------------------------------------------------------ resolvers
MsgNotFound == <<" ","h","a","s"," ","n","o","t"," ","b","e","e","n"," ","f","o","u","n","d">>
MsgAmbiguous == <<"A","m","b","i","g","u","o","u","s"," ","r","e","s","u","l","t","."," ">>
MsgRecords == <<" ","r","e","c","o","r","d","s"," ","r","e","t","u","r","n","e","d">>
MsgDead == <<" ","i","s"," ","d","e","a","d">>
KeyPopulation == <<"'","p","o","p","u","l","a","t","i","o","n","'">>
KeyDateOfBirth == <<"'","d","a","t","e","_","o","f","_","b","i","r","t","h","'">>

\* get_age with the deceased test before the count tests
get_age_check_dead_first(person, results) ==
  LET bindings == results.results.bindings
      bindings_length == Len(bindings)
  IN IF bindings_length > 0 /\ "date_of_death" \in DOMAIN bindings[1]
       THEN Raise("ValueError", person \o MsgDead)
     ELSE IF bindings_length = 0
       THEN Raise("IndexError", person \o MsgNotFound)
     ELSE IF bindings_length > 1
       THEN Raise("ValueError", MsgAmbiguous \o Str(bindings_length) \o MsgRecords)
     ELSE None

\* get_age without the deceased test
get_age_check_no_dead(person, results) ==
  LET bindings == results.results.bindings
      bindings_length == Len(bindings)
  IN IF bindings_length = 0
       THEN Raise("IndexError", person \o MsgNotFound)
     ELSE IF bindings_length > 1
       THEN Raise("ValueError", MsgAmbiguous \o Str(bindings_length) \o MsgRecords)
     ELSE None

\* get_age up to its else branch: the exception the tests on the result
\* raise, or None when the age is to be computed.
get_age_check(person, results) ==
  LET bindings == results.results.bindings
      bindings_length == Len(bindings)
  IN IF bindings_length = 0
       THEN Raise("IndexError", person \o MsgNotFound)
     ELSE IF bindings_length > 1
       THEN Raise("ValueError", MsgAmbiguous \o Str(bindings_length) \o MsgRecords)
     ELSE IF "date_of_death" \in DOMAIN bindings[1]
       THEN Raise("ValueError", person \o MsgDead)
     ELSE None

\* str of the difference of the calendar years
age_by_year(today, dob) == Str(YearsApart(today, dob).years)

\* age = str(relativedelta(today, dob).years)
age(today, dob) == Str(relativedelta(today, dob).years)

\* get_population that reports a binding without population as not found
get_population_absent_not_found(city, results) ==
  LET bindings == results.results.bindings
      bindings_length == Len(bindings)
  IN IF bindings_length = 0
       THEN Raise("IndexError", city \o MsgNotFound)
     ELSE IF bindings_length > 1
       THEN Raise("ValueError", MsgAmbiguous \o Str(bindings_length) \o MsgRecords)
     ELSE IF "population" \in DOMAIN bindings[1]
       THEN Return(bindings[1].population.value)
     ELSE Raise("IndexError", city \o MsgNotFound)

\* get_population without the test for an empty result
get_population_no_empty_test(city, results) ==
  LET bindings == results.results.bindings
      bindings_length == Len(bindings)
  IN IF bindings_length > 1
       THEN Raise("ValueError", MsgAmbiguous \o Str(bindings_length) \o MsgRecords)
     ELSE IF bindings_length = 0
       THEN Raise("IndexError", <<>>)
     ELSE IF "population" \in DOMAIN bindings[1]
       THEN Return(bindings[1].population.value)
     ELSE Raise("KeyError", KeyPopulation)

\* get_population after run_query: what it raises or returns.
get_population(city, results) ==
  LET bindings == results.results.bindings
      bindings_length == Len(bindings)
  IN IF bindings_length = 0
       THEN Raise("IndexError", city \o MsgNotFound)
     ELSE IF bindings_length > 1
       THEN Raise("ValueError", MsgAmbiguous \o Str(bindings_length) \o MsgRecords)
     ELSE IF "population" \in DOMAIN bindings[1]
       THEN Return(bindings[1].population.value)
     ELSE Raise("KeyError", KeyPopulation)

\* ------------------------------------------------------------ inputs
\* Pieces a question text is put together from: the halves of the age
\* prefix, the age prefix and the population prefix in mixed case, blanks,
\* and a name.
PHow == <<"h","o","w"," ">>
POldIs == <<"o","l","d"," ","i","s"," ">>
PHowOldIs == <<"H","O","W"," ","o","l","d"," ","i","s"," ">>
PPopulation == <<"W","h","a","t"," ","I","s"," ","T","h","e"," ","P","o","p","u","l","a","t","i","o","n"," ","O","f"," ">>
PBlank == <<" ","\t">>
PName == <<"l","O","n","d","o","n">>
Pieces == {PHow, POldIs, PHowOldIs, PPopulation, PBlank, PName}

RECURSIVE TextsOf(_)
TextsOf(n) ==
  IF n = 0 THEN {<<>>}
  ELSE LET T == TextsOf(n - 1) IN T \cup {t \o p : t \in T, p \in Pieces}
Texts == TextsOf(MaxPieces)

\* Questions of TestGuru.test_ask.
QBlair == <<"h","o","w"," ","o","l","d"," ","i","s"," ","T","o","n","y"," ","B","l","a","i","r">>
QLincoln == <<"h","o","w"," ","o","l","d"," ","i","s"," ","A","b","r","a","h","a","m"," ","L","i","n","c","o","l","n">>
QObama == <<"h","o","w"," ","o","l","d"," ","i","s"," "," "," ","B","a","r","a","c","k"," ","O","b","a","m","a">>
QLondon == <<"w","h","a","t"," ","i","s"," ","t","h","e"," ","p","o","p","u","l","a","t","i","o","n"," ","o","f"," ","l","O","n","d","o","n">>
QNarnia == <<"w","h","a","t"," ","i","s"," ","t","h","e"," ","p","o","p","u","l","a","t","i","o","n"," ","o","f"," ","N","a","r","n","i","a">>
TestQuestions == {QBlair, QLincoln, QObama, QLondon, QNarnia}

\* Dates of the calendar years covered: the first and the last days of the
\* months around the turn of the year and around the end of February.
Years == 2000..(2000 + YearSpan)
Dates ==
  {x \in {Date(y, m, d) : y \in Years, m \in {1, 2, 3, 12}, d \in {1, 28, 29, 31}} :
     x.day <= DaysIn(x.year, x.month)}
OneDay == {Date(2002, 3, 1)}

\* Bindings of the person query: date_of_birth always, date_of_death
\* optional; of the city query: population optional.
Unknown == <<"u","n","k","n","o","w","n">>
Population == <<"8","7","9","9","7","2","8">>
Born(t) == [date_of_birth |-> [value |-> t]]
BornDied(t, u) == [date_of_birth |-> [value |-> t], date_of_death |-> [value |-> u]]
Populated(t) == [population |-> [value |-> t]]
Unpopulated == [cityLabel |-> [value |-> PName]]
SomeBirth == IsoText(Date(2000, 2, 29))
SomeDeath == IsoText(Date(2001, 12, 31))
PersonBindings == {Born(IsoText(d)) : d \in Dates} \cup {Born(Unknown)}
FewPersonBindings ==
  {Born(SomeBirth), Born(Unknown), BornDied(SomeBirth, SomeDeath),
   BornDied(Unknown, Unknown)}
CityBindings == {Populated(Population), Populated(<<"0">>), Unpopulated}

SeqsUpTo(S, n) == UNION {[1..k -> S] : k \in 0..n}
\* What the service may answer to a person query and to a city query.
PersonResults == SeqsUpTo(FewPersonBindings, MaxBindings) \cup {<<b>> : b \in PersonBindings}
CityResults == SeqsUpTo(CityBindings, MaxBindings)
FewPersonResults ==
  {<<>>, <<Born(SomeBirth)>>, <<BornDied(SomeBirth, SomeDeath)>>,
   <<Born(SomeBirth), Born(SomeBirth)>>}
FewCityResults ==
  {<<>>, <<Populated(Population)>>, <<Unpopulated>>,
   <<Populated(Population), Unpopulated>>}

\* ------------------------------------------------------------ state
VARIABLES
  pc,        \* per call: the statement it is at
  question,  \* per call: the argument of ask
  callee,    \* per call: the resolver ask called and its argument, or None
  query,     \* per call: the local query of the resolver
  sparql,    \* self.sparql: the query string and return format it holds
  sent,      \* per call: the queries the client sent to the endpoint for it
  results,   \* per call: the local results of the resolver
  today,     \* per call: the local today of get_age
  dob,       \* per call: the local dob of get_age
  result     \* per call: what ask returned or raised, or None

vars == <<pc, question, callee, query, sparql, sent, results, today, dob, result>>

Calls == DOMAIN pc

\* Guru.__init__ and the start of the calls of ask in Q, one per caller.
InitWith(Callers, Q) ==
  /\ pc = [c \in Callers |-> "ask"]
  /\ question \in [Callers -> Q]
  /\ callee = [c \in Callers |-> None]
  /\ query = [c \in Callers |-> None]
  /\ sparql = [queryString |-> DefaultQuery, returnFormat |-> "xml"]
  /\ sent = [c \in Callers |-> <<>>]
  /\ results = [c \in Callers |-> None]
  /\ today = [c \in Callers |-> None]
  /\ dob = [c \in Callers |-> None]
  /\ result = [c \in Callers |-> None]

\* ask, lines 117-133, and the resolver's first line: the question is
\* rejected, or the resolver is entered and builds its query.
Ask(c) ==
  /\ pc[c] = "ask"
  /\ LET r == ask(question[c]) IN
     IF IsRaise(r)
     THEN /\ result' = [result EXCEPT ![c] = r]
          /\ pc' = [pc EXCEPT ![c] = "done"]
          /\ UNCHANGED <<callee, query>>
     ELSE /\ callee' = [callee EXCEPT ![c] = r]
          /\ query' = [query EXCEPT ![c] =
                         IF r.call = "get_age" THEN person_query(r.arg) ELSE city_query(r.arg)]
          /\ pc' = [pc EXCEPT ![c] = "setQuery"]
          /\ UNCHANGED result
  /\ UNCHANGED <<question, sparql, sent, results, today, dob>>

\* A setQuery that does not store the query.
SetQueryLost(c) ==
  /\ pc[c] = "setQuery"
  /\ pc' = [pc EXCEPT ![c] = "setReturnFormat"]
  /\ UNCHANGED <<question, callee, query, sparql, sent, results, today, dob, result>>

\* run_query: self.sparql.setQuery(query)
SetQuery(c) ==
  /\ pc[c] = "setQuery"
  /\ sparql' = [sparql EXCEPT !.queryString = query[c]]
  /\ pc' = [pc EXCEPT ![c] = "setReturnFormat"]
  /\ UNCHANGED <<question, callee, query, sent, results, today, dob, result>>

\* run_query: self.sparql.setReturnFormat(JSON)
SetReturnFormat(c) ==
  /\ pc[c] = "setReturnFormat"
  /\ sparql' = [sparql EXCEPT !.returnFormat = "json"]
  /\ pc' = [pc EXCEPT ![c] = "query"]
  /\ UNCHANGED <<question, callee, query, sent, results, today, dob, result>>

\* run_query: self.sparql.query().convert(): the client sends the query
\* string it holds and the service answers with bindings of that query.
Query(c, PR, CR) ==
  /\ pc[c] = "query"
  /\ sent' = [sent EXCEPT ![c] = Append(sent[c], sparql.queryString)]
  /\ \E bindings \in (IF sparql.queryString.template = "person_query" THEN PR ELSE CR) :
       results' = [results EXCEPT ![c] = [results |-> [bindings |-> bindings]]]
  /\ pc' = [pc EXCEPT ![c] = "resolve"]
  /\ UNCHANGED <<question, callee, query, sparql, today, dob, result>>

\* A run_query that sends the query again after the client raised.
QueryRetried(c) ==
  /\ pc[c] = "query"
  /\ sent' = [sent EXCEPT ![c] = Append(sent[c], sparql.queryString)]
  /\ UNCHANGED <<pc, question, callee, query, sparql, results, today, dob, result>>

\* run_query: the client sends the query and raises; nothing catches it
\* in run_query, the resolver or ask.
QueryFails(c) ==
  /\ pc[c] = "query"
  /\ sent' = [sent EXCEPT ![c] = Append(sent[c], sparql.queryString)]
  /\ result' = [result EXCEPT ![c] = Raise("URLError", <<>>)]
  /\ pc' = [pc EXCEPT ![c] = "done"]
  /\ UNCHANGED <<question, callee, query, sparql, results, today, dob>>

\* get_age after run_query, lines 66-78, and the return of ask.
GetAge(c, Days) ==
  /\ pc[c] = "resolve"
  /\ callee[c].call = "get_age"
  /\ LET r == get_age_check(callee[c].arg, results[c]) IN
     IF r # None
     THEN /\ result' = [result EXCEPT ![c] = r]
          /\ UNCHANGED <<today, dob>>
     ELSE IF "date_of_birth" \notin DOMAIN results[c].results.bindings[1]
     THEN /\ result' = [result EXCEPT ![c] = Raise("KeyError", KeyDateOfBirth)]
          /\ UNCHANGED <<today, dob>>
     ELSE \E t \in Days :
          LET dob_result == results[c].results.bindings[1].date_of_birth.value
              d == parse_date(dob_result)
          IN /\ today' = [today EXCEPT ![c] = t]
             /\ IF IsRaise(d)
                THEN /\ result' = [result EXCEPT ![c] = d]
                     /\ UNCHANGED dob
                ELSE /\ dob' = [dob EXCEPT ![c] = d]
                     /\ result' = [result EXCEPT ![c] = Return(age(t, d))]
  /\ pc' = [pc EXCEPT ![c] = "done"]
  /\ UNCHANGED <<question, callee, query, sparql, sent, results>>

\* get_population after run_query, lines 91-99, and the return of ask.
GetPopulation(c) ==
  /\ pc[c] = "resolve"
  /\ callee[c].call = "get_population"
  /\ result' = [result EXCEPT ![c] = get_population(callee[c].arg, results[c])]
  /\ pc' = [pc EXCEPT ![c] = "done"]
  /\ UNCHANGED <<question, callee, query, sparql, sent, results, today, dob>>

\* ------------------------------------------------------------ specifications
\* One call of ask on any text or on a question of the tests; few answers
\* of the service.
Init == InitWith({1}, Texts \cup TestQuestions)
Next ==
  \/ \E c \in Calls : Ask(c)
  \/ \E c \in Calls : SetQuery(c)
  \/ \E c \in Calls : SetReturnFormat(c)
  \/ \E c \in Calls : Query(c, FewPersonResults, FewCityResults)
  \/ \E c \in Calls : QueryFails(c)
  \/ \E c \in Calls : GetAge(c, OneDay)
  \/ \E c \in Calls : GetPopulation(c)
Spec == Init /\ [][Next]_vars

\* One call of ask on a question of the tests; any answer of the service
\* and any day.
ResolverInit == InitWith({1}, TestQuestions)
ResolverNext ==
  \/ \E c \in Calls : Ask(c)
  \/ \E c \in Calls : SetQuery(c)
  \/ \E c \in Calls : SetReturnFormat(c)
  \/ \E c \in Calls : Query(c, PersonResults, CityResults)
  \/ \E c \in Calls : QueryFails(c)
  \/ \E c \in Calls : GetAge(c, Dates)
  \/ \E c \in Calls : GetPopulation(c)
ResolverSpec == ResolverInit /\ [][ResolverNext]_vars

\* Two calls of ask on one Guru, their steps interleaved.
ParallelInit == InitWith({1, 2}, TestQuestions)
ParallelSpec == ParallelInit /\ [][Next]_vars

\* ------------------------------------------------------------ properties
Done(c) == pc[c] = "done"
Answered(c) == results[c] # None
Bindings(c) == results[c].results.bindings
Called(c, name) == IsCall(callee[c]) /\ callee[c].call = name
AllDigits(s) == s # <<>> /\ \A i \in 1..Len(s) : IsDigit(s[i])
\* The message is: Ambiguous result. <n> records returned
IsAmbiguousMsg(msg, n) ==
  LET a == Len(MsgAmbiguous)
      r == Len(MsgRecords)
  IN /\ Len(msg) > a + r
     /\ SubSeq(msg, 1, a) = MsgAmbiguous
     /\ SubSeq(msg, Len(msg) - r + 1, Len(msg)) = MsgRecords
     /\ AllDigits(SubSeq(msg, a + 1, Len(msg) - r))
     /\ Num(SubSeq(msg, a + 1, Len(msg) - r)) = n

\* C1: a result of two or more bindings makes get_age and get_population
\* raise ValueError "Ambiguous result. <N> records returned" with N the
\* number of bindings, whatever fields the bindings carry.
C1_AmbiguousTakesPrecedence ==
  \A c \in Calls :
    (Done(c) /\ Answered(c) /\ Len(Bindings(c)) >= 2) =>
      /\ IsRaise(result[c])
      /\ result[c].raise = "ValueError"
      /\ IsAmbiguousMsg(result[c].msg, Len(Bindings(c)))
C1_Witness ==
  \E c \in Calls :
    /\ Done(c) /\ Answered(c) /\ Called(c, "get_age")
    /\ Len(Bindings(c)) >= 2
    /\ "date_of_death" \in DOMAIN Bindings(c)[1]
    /\ IsRaise(result[c]) /\ IsAmbiguousMsg(result[c].msg, Len(Bindings(c)))

NarniaNotFound == <<"N","a","r","n","i","a"," ","h","a","s"," ","n","o","t"," ","b","e","e","n"," ","f","o","u","n","d">>
TonyBlairNotFound == <<"T","o","n","y"," ","B","l","a","i","r"," ","h","a","s"," ","n","o","t"," ","b","e","e","n"," ","f","o","u","n","d">>
\* C2: a result of no bindings makes get_age and get_population raise
\* IndexError "<subject> has not been found", the subject being the argument
\* the resolver was called with; for the questions of the tests that is the
\* trimmed, title-cased remainder of the question.
C2_NotFoundNamesSubject ==
  \A c \in Calls :
    (Done(c) /\ Answered(c) /\ Len(Bindings(c)) = 0) =>
      /\ result[c] = Raise("IndexError", callee[c].arg \o MsgNotFound)
      /\ question[c] = QNarnia => result[c].msg = NarniaNotFound
      /\ question[c] = QBlair => result[c].msg = TonyBlairNotFound
C2_Witness ==
  \E c \in Calls :
    /\ Done(c) /\ Answered(c) /\ Len(Bindings(c)) = 0
    /\ question[c] = QNarnia
    /\ Called(c, "get_population")
    /\ result[c] = Raise("IndexError", NarniaNotFound)

LincolnIsDead == <<"A","b","r","a","h","a","m"," ","L","i","n","c","o","l","n"," ","i","s"," ","d","e","a","d">>
\* C3: one binding that has date_of_death makes get_age raise ValueError
\* "<subject> is dead" whatever date_of_birth and date_of_death hold; today
\* is not read, the birth date is not parsed and no age is returned.
C3_DeceasedBeforeParse ==
  \A c \in Calls :
    (/\ Done(c) /\ Answered(c) /\ Called(c, "get_age")
     /\ Len(Bindings(c)) = 1
     /\ "date_of_death" \in DOMAIN Bindings(c)[1]) =>
      /\ result[c] = Raise("ValueError", callee[c].arg \o MsgDead)
      /\ today[c] = None
      /\ dob[c] = None
C3_Witness ==
  \E c \in Calls :
    /\ Done(c) /\ Answered(c) /\ question[c] = QLincoln
    /\ Bindings(c) = <<BornDied(Unknown, Unknown)>>
    /\ result[c] = Raise("ValueError", LincolnIsDead)

DateLE(a, b) == ~DateLT(b, a)
\* The n-th anniversary of d; that of a 29 February is 28 February in a
\* year that is no leap year.
Anniversary(d, n) == Date(d.year + n, d.month, Min(d.day, DaysIn(d.year + n, d.month)))
Greatest(S) == CHOOSE n \in S : \A k \in S : k <= n
\* Whole years from d to t: the anniversaries of d reached by t; for d
\* after t, minus the whole years by which d lies ahead of t.
WholeYears(t, d) ==
  IF DateLE(d, t)
  THEN Greatest({n \in 0..(t.year - d.year) : DateLE(Anniversary(d, n), t)})
  ELSE -Greatest({n \in 0..(d.year - t.year) : DateLE(t, Anniversary(d, -n))})
\* Years by month and day alone: the year difference, less one when the
\* month and day of t come before those of d.
YearsByMonthDay(t, d) ==
  (t.year - d.year)
    - (IF t.month < d.month \/ (t.month = d.month /\ t.day < d.day) THEN 1 ELSE 0)
\* The int a decimal text denotes.
IntOf(s) == IF s # <<>> /\ Head(s) = "-" THEN -Num(Tail(s)) ELSE Num(s)
IsDecimal(s) == AllDigits(s) \/ (s # <<>> /\ Head(s) = "-" /\ AllDigits(Tail(s)))
Aged(c) ==
  /\ Done(c) /\ Answered(c) /\ Called(c, "get_age")
  /\ Len(Bindings(c)) = 1
  /\ "date_of_death" \notin DOMAIN Bindings(c)[1]
  /\ dob[c] # None

\* C4 as claimed: with one binding and no date_of_death, get_age returns
\* the decimal text of a non-negative integer, the year difference of
\* today and the birth date less one when the month and day of the birth
\* date are not yet reached, for every birth date and every today.
C4_NonNegativeByMonthDay ==
  \A c \in Calls :
    Aged(c) =>
      /\ IsReturn(result[c])
      /\ AllDigits(result[c].return)
      /\ Num(result[c].return) = YearsByMonthDay(today[c], dob[c])
\* C4 as amended: get_age returns the decimal text of the whole years from
\* the birth date to today, which counts the anniversary of a 29 February
\* birth as reached on 28 February of a year that is no leap year, and is
\* zero or negative when the birth date is later than today.
C4_SignedWholeYears ==
  \A c \in Calls :
    Aged(c) =>
      /\ IsReturn(result[c])
      /\ IsDecimal(result[c].return)
      /\ IntOf(result[c].return) = WholeYears(today[c], dob[c])
      /\ dob[c] = parse_date(Bindings(c)[1].date_of_birth.value)
      /\ (DateLE(dob[c], today[c]) <=> AllDigits(result[c].return))
         \/ IntOf(result[c].return) = 0
C4_Witness ==
  \E c \in Calls :
    /\ Aged(c)
    /\ dob[c] = Date(2000, 2, 29)
    /\ today[c] = Date(2001, 2, 28)
    /\ result[c] = Return(<<"1">>)

\* The phrase occurs in the text at i, letter case aside.
PhraseAt(q, phrase, i) ==
  /\ i + Len(phrase) - 1 <= Len(q)
  /\ \A k \in 1..Len(phrase) : LowerChar(q[i + k - 1]) = phrase[k]
HasPhrase(q, phrase) == \E i \in 1..Len(q) : PhraseAt(q, phrase, i)
\* Where the phrase occurs in the text.
Occurrences(q, phrase) == {i \in 1..Len(q) : PhraseAt(q, phrase, i)}
\* Position j lies in an occurrence of length n that starts in occ.
Covered(occ, n, j) == \E i \in occ : i <= j /\ j < i + n
\* The lower-cased text without the positions its occurrences of the
\* phrase cover.
RECURSIVE UncoveredFrom(_, _, _, _)
UncoveredFrom(q, occ, n, j) ==
  IF j > Len(q) THEN <<>>
  ELSE (IF Covered(occ, n, j) THEN <<>> ELSE <<LowerChar(q[j])>>)
         \o UncoveredFrom(q, occ, n, j + 1)
Uncovered(q, phrase) == UncoveredFrom(q, Occurrences(q, phrase), Len(phrase), 1)
Blank(s) == \A i \in 1..Len(s) : s[i] \in whitespace
RoutedToAge(c) ==
  Called(c, "get_age") \/ result[c] = Raise("ValueError", MsgMissingPerson)
RoutedToPopulation(c) ==
  Called(c, "get_population") \/ result[c] = Raise("ValueError", MsgMissingCity)
Rejected(c) == result[c] = Raise("ValueError", MsgInvalid \o question[c])
Routed(c) == pc[c] # "ask"

\* C5 as claimed: a text that holds the population prefix anywhere, in any
\* letter case, goes to the population branch; one that holds the age
\* prefix goes to the age branch; one that holds neither is rejected with
\* "Invalid question: " and the text as given; one branch at most is taken.
C5_EachPrefixRoutes ==
  \A c \in Calls :
    Routed(c) =>
      /\ HasPhrase(question[c], population_question) => RoutedToPopulation(c)
      /\ HasPhrase(question[c], age_question) => RoutedToAge(c)
      /\ (~HasPhrase(question[c], population_question)
            /\ ~HasPhrase(question[c], age_question)) => Rejected(c)
      /\ ~(RoutedToAge(c) /\ RoutedToPopulation(c))
\* C5 as amended: a text that holds the age prefix goes to the age branch,
\* also when it holds the population prefix too; a text that holds the
\* population prefix and not the age prefix goes to the population branch;
\* a text that holds neither is rejected with the text as given.
C5_AgePrefixFirst ==
  \A c \in Calls :
    Routed(c) =>
      /\ HasPhrase(question[c], age_question) =>
           (RoutedToAge(c) /\ ~RoutedToPopulation(c) /\ ~Rejected(c))
      /\ (HasPhrase(question[c], population_question)
            /\ ~HasPhrase(question[c], age_question)) =>
           (RoutedToPopulation(c) /\ ~RoutedToAge(c) /\ ~Rejected(c))
      /\ (~HasPhrase(question[c], population_question)
            /\ ~HasPhrase(question[c], age_question)) =>
           (Rejected(c) /\ callee[c] = None)
C5_Witness ==
  \E c \in Calls :
    /\ Routed(c)
    /\ PhraseAt(question[c], population_question, 1)
    /\ HasPhrase(question[c], age_question)
    /\ question[c] # Lower(question[c])
    /\ Called(c, "get_age")

MatchedPhrase(c) ==
  IF HasPhrase(question[c], age_question) THEN age_question ELSE population_question
Matched(c) ==
  HasPhrase(question[c], age_question) \/ HasPhrase(question[c], population_question)
MissingSubject(c) ==
  IF HasPhrase(question[c], age_question)
  THEN Raise("ValueError", MsgMissingPerson)
  ELSE Raise("ValueError", MsgMissingCity)

\* C6: when what the removal of the matched prefix leaves is empty or all
\* whitespace, ask raises the missing-subject error of the kind and calls
\* no resolver and sends no query; when it is not, the resolver is called.
C6_MissingSubject ==
  \A c \in Calls :
    (Routed(c) /\ Matched(c)) =>
      IF Blank(Uncovered(question[c], MatchedPhrase(c)))
      THEN result[c] = MissingSubject(c) /\ callee[c] = None /\ sent[c] = <<>>
      ELSE IsCall(callee[c]) /\ result[c] # MissingSubject(c)
C6_Witness ==
  \E c \in Calls :
    /\ Routed(c)
    /\ HasPhrase(question[c], population_question)
    /\ Uncovered(question[c], population_question) # <<>>
    /\ Blank(Uncovered(question[c], population_question))
    /\ result[c] = Raise("ValueError", MsgMissingCity)

\* A cased character is upper case exactly when no cased character is
\* before it.
IsTitled(s) ==
  \A i \in 1..Len(s) :
    IsCased(s[i]) => (IsUpper(s[i]) <=> (i = 1 \/ ~IsCased(s[i - 1])))
\* t is s without the whitespace around it.
IsTrimOf(t, s) ==
  /\ t # <<>> => (t[1] \notin whitespace /\ t[Len(t)] \notin whitespace)
  /\ \E i \in 1..(Len(s) + 1) :
       /\ i + Len(t) - 1 <= Len(s)
       /\ SubSeq(s, i, i + Len(t) - 1) = t
       /\ Blank(SubSeq(s, 1, i - 1))
       /\ Blank(SubSeq(s, i + Len(t), Len(s)))
\* The subject is the title-cased, trimmed text that deleting every
\* occurrence of the matched prefix from the lower-cased question leaves,
\* and it is what the query is built from.
SubjectOfRemainder(c) ==
  /\ IsTitled(callee[c].arg)
  /\ IsTrimOf(Lower(callee[c].arg), Uncovered(question[c], MatchedPhrase(c)))
  /\ query[c].label = callee[c].arg
  /\ \A i \in 1..Len(sent[c]) : sent[c][i].label = callee[c].arg

BarackObama == <<"B","a","r","a","c","k"," ","O","b","a","m","a">>
London == <<"L","o","n","d","o","n">>
HowOldIsLondon == <<"H","o","w"," ","O","l","d"," ","I","s"," ","L","o","n","d","o","n">>
\* C7 as claimed: the subject handed to the resolver is the trimmed,
\* title-cased remainder and does not hold the prefix phrase, also when
\* the prefix follows other words or occurs more than once.
C7_SubjectWithoutPrefix ==
  \A c \in Calls :
    IsCall(callee[c]) =>
      /\ SubjectOfRemainder(c)
      /\ ~HasPhrase(callee[c].arg, MatchedPhrase(c))
\* C7 as amended: the subject handed to the resolver is the trimmed,
\* title-cased text left by deleting every occurrence of the matched prefix
\* from the lower-cased question in one pass; it holds the prefix phrase
\* again only when the deletion joins the text around an occurrence into
\* a new one.
C7_SubjectOfOnePass ==
  \A c \in Calls :
    IsCall(callee[c]) =>
      /\ SubjectOfRemainder(c)
      /\ question[c] = QObama => callee[c].arg = BarackObama
      /\ question[c] = QLondon => callee[c].arg = London
      /\ HasPhrase(callee[c].arg, MatchedPhrase(c))
           => HasPhrase(Uncovered(question[c], MatchedPhrase(c)), MatchedPhrase(c))
C7_Witness ==
  \E c \in Calls :
    /\ Called(c, "get_age")
    /\ question[c] = PHow \o PHowOldIs \o POldIs \o PName
    /\ callee[c].arg = HowOldIsLondon
    /\ sent[c] = <<person_query(HowOldIsLondon)>>

AskRaised(c) ==
  result[c] \in {Raise("ValueError", MsgMissingPerson), Raise("ValueError", MsgMissingCity),
                 Raise("ValueError", MsgInvalid \o question[c])}
\* C8 as claimed: every call of ask sends exactly one query.
C8_ExactlyOneQuery ==
  \A c \in Calls : Done(c) => Len(sent[c]) = 1
\* C8 as amended: a call of ask sends one query at most and never sends
\* again; when it is over it has sent exactly one if ask called a resolver
\* and none if ask raised the missing-subject or invalid-question error;
\* a failure of the client is the outcome of the call.
C8_AtMostOneQuery ==
  \A c \in Calls :
    /\ Len(sent[c]) <= 1
    /\ Done(c) =>
         /\ Len(sent[c]) = 1 <=> IsCall(callee[c])
         /\ Len(sent[c]) = 0 <=> AskRaised(c)
         /\ (Len(sent[c]) = 1 /\ ~Answered(c)) => result[c] = Raise("URLError", <<>>)
C8_Witness ==
  \E c \in Calls :
    /\ Done(c)
    /\ Len(sent[c]) = 1
    /\ ~Answered(c)
    /\ result[c] = Raise("URLError", <<>>)

\* C9 as claimed: with calls of ask interleaved on one Guru, the query sent
\* for a call is the one the call built from its own subject.
C9_OwnQuerySent ==
  \A c \in Calls : \A i \in 1..Len(sent[c]) : sent[c][i] = query[c]
\* C9 as amended: the query sent for a call is the one self.sparql holds
\* when the call reaches query(): the call's own, or, once another call on
\* the same Guru has run setQuery, possibly that call's.
C9_OwnOrOverwritten ==
  \A c \in Calls : \A i \in 1..Len(sent[c]) :
    \/ sent[c][i] = query[c]
    \/ \E o \in Calls \ {c} :
         /\ pc[o] \notin {"ask", "setQuery"}
         /\ sent[c][i] = query[o]
C9_Witness ==
  \E c \in Calls :
    /\ Done(c)
    /\ Called(c, "get_population")
    /\ sent[c] # <<query[c]>>
    /\ Len(sent[c]) = 1 /\ sent[c][1].template = "person_query"
    /\ result[c] = Raise("KeyError", KeyPopulation)

\* C10: one binding makes get_population return the value of its
\* population as it is, and raise the KeyError of the lookup when the
\* binding has no population.
C10_PopulationOrKeyError ==
  \A c \in Calls :
    (/\ Done(c) /\ Answered(c) /\ Called(c, "get_population")
     /\ Len(Bindings(c)) = 1) =>
      IF "population" \in DOMAIN Bindings(c)[1]
      THEN result[c] = Return(Bindings(c)[1].population.value)
      ELSE result[c] = Raise("KeyError", KeyPopulation)
C10_Witness ==
  \E c \in Calls :
    /\ Done(c) /\ Answered(c) /\ Called(c, "get_population")
    /\ Bindings(c) = <<Unpopulated>>
    /\ result[c] = Raise("KeyError", KeyPopulation)
====
